---- MODULE Spec2Model ----
(***************************************************************************)
(* Model of the board slot types of checkers_ai (model/src/board):         *)
(*   - ContainerSpace<T>  (spaces/container.rs)                            *)
(*   - EmptySpace         (spaces/empty.rs)                                *)
(*   - Space<T>           (space.rs)                                       *)
(* T is instantiated with u8, as in the unit tests of the source.          *)
(*                                                                         *)
(* One ContainerSpace and one Space are driven in lock step by the same    *)
(* constructor and mutator calls; the read operations are called on the    *)
(* ContainerSpace and their return value is recorded.                      *)
(***************************************************************************)
EXTENDS Integers, Sequences, FiniteSets, TLC

VARIABLES
    container,  \* the ContainerSpace<u8> value  [element |-> Option<u8>]
    space,      \* the Space<u8> value           [element |-> Option<u8>]
    op,         \* name of the last operation called
    arg,        \* argument of the last operation, as an Option<u8>
    ret,        \* value returned by the last operation
    prev,       \* the ContainerSpace value before the last operation
    prevOp      \* name of the operation called before the last one

vars == <<container, space, op, arg, ret, prev, prevOp>>

\* Largest u8 element value the inputs are drawn from.
MaxElement == 12

Elements == 0..MaxElement

----------------------------------------------------------------------------
\* Option<T>: None is the empty sequence, Some(x) the one-element sequence.
None == <<>>

Some(x) == <<x>>

Options == {None} \cup {Some(x) : x \in Elements}

is_some(o) == Len(o) = 1

is_none(o) == ~is_some(o)

\* Result<T, NoElementError> and plain return values.
NoElementError == "NoElementError"

Ok(x) == [tag |-> "Ok", val |-> x]

Err(e) == [tag |-> "Err", val |-> e]

Value(v) == [tag |-> "Value", val |-> v]

Unit == [tag |-> "Unit", val |-> 0]

----------------------------------------------------------------------------
\* Text is a sequence of one-character strings.
Digits == <<"0", "1", "2", "3", "4", "5", "6", "7", "8", "9">>

\* u8::to_string: decimal digits, most significant first, no padding.
RECURSIVE u8_to_string(_)
u8_to_string(n) ==
    IF n < 10 THEN <<Digits[n + 1]>>
    ELSE u8_to_string(n \div 10) \o <<Digits[(n % 10) + 1]>>

----------------------------------------------------------------------------
\* ContainerSpace<T>  (spaces/container.rs)

ContainerSpace_new == [element |-> None]

ContainerSpace_with_element(element) == [element |-> Some(element)]

\* Mutant: the argument is dropped and the default (empty) slot is built.
ContainerSpace_from_dropped(option) == [element |-> None]

ContainerSpace_from(option) == [element |-> option]

ContainerSpace_as_option(self) == self.element

\* Mutant: an empty slot yields the default element instead of the error.
ContainerSpace_element_default(self) ==
    IF is_some(ContainerSpace_as_option(self))
    THEN Ok(ContainerSpace_as_option(self)[1])
    ELSE Ok(0)

ContainerSpace_element(self) ==
    IF is_some(ContainerSpace_as_option(self))
    THEN Ok(ContainerSpace_as_option(self)[1])
    ELSE Err(NoElementError)

\* Mutant: the test is inverted.
ContainerSpace_is_empty_inverted(self) ==
    is_some(ContainerSpace_as_option(self))

ContainerSpace_is_empty(self) == is_none(ContainerSpace_as_option(self))

ContainerSpace_has_element(self) == is_some(ContainerSpace_as_option(self))

\* Mutant: None is ignored, only Some(x) is stored.
ContainerSpace_set_optional_element_some_only(self, option) ==
    IF is_some(option) THEN [self EXCEPT !.element = option] ELSE self

ContainerSpace_set_optional_element(self, option) ==
    [self EXCEPT !.element = option]

\* Mutant: an occupied slot keeps its element.
ContainerSpace_set_element_keep(self, element) ==
    IF is_some(self.element) THEN self
    ELSE ContainerSpace_set_optional_element(self, Some(element))

ContainerSpace_set_element(self, element) ==
    ContainerSpace_set_optional_element(self, Some(element))

\* Mutant: the slot is left as it is.
ContainerSpace_clear_noop(self) == self

ContainerSpace_clear(self) ==
    ContainerSpace_set_optional_element(self, None)

\* Mutant: the closing pipe is missing.
ContainerSpace_fmt_unclosed(self) ==
    <<"|">> \o
    (IF is_some(ContainerSpace_as_option(self))
     THEN u8_to_string(ContainerSpace_as_option(self)[1])
     ELSE <<" ">>)

ContainerSpace_fmt(self) ==
    <<"|">> \o
    (IF is_some(ContainerSpace_as_option(self))
     THEN u8_to_string(ContainerSpace_as_option(self)[1])
     ELSE <<" ">>) \o
    <<"|">>

----------------------------------------------------------------------------
\* EmptySpace  (spaces/empty.rs): a struct without fields.

EmptySpace_new == [type |-> "EmptySpace"]

EmptySpace_fmt(self) == <<"|", " ", "|">>

----------------------------------------------------------------------------
\* Space<T>  (space.rs)

Space_new == [element |-> None]

Space_with_element(element) == [element |-> Some(element)]

Space_from(option) == [element |-> option]

Space_element(self) == self.element

Space_is_empty(self) == is_none(Space_element(self))

Space_has_element(self) == is_some(Space_element(self))

Space_set_optional_element(self, option) == [self EXCEPT !.element = option]

Space_set_element(self, element) ==
    Space_set_optional_element(self, Some(element))

Space_clear(self) == Space_set_optional_element(self, None)

\* Mutant: an empty slot renders without the placeholder blank.
Space_fmt_no_blank(self) ==
    <<"|">> \o
    (IF is_some(Space_element(self))
     THEN u8_to_string(Space_element(self)[1])
     ELSE <<>>) \o
    <<"|">>

Space_fmt(self) ==
    <<"|">> \o
    (IF is_some(Space_element(self))
     THEN u8_to_string(Space_element(self)[1])
     ELSE <<" ">>) \o
    <<"|">>

----------------------------------------------------------------------------
\* The state after `let mut cut = ContainerSpace::new()` / `Space::new()`.
Init ==
    /\ container = ContainerSpace_new
    /\ space = Space_new
    /\ op = "new"
    /\ arg = None
    /\ ret = Unit
    /\ prev = ContainerSpace_new
    /\ prevOp = "new"

\* Bookkeeping shared by all calls.
Called(name, a, r) ==
    /\ op' = name
    /\ arg' = a
    /\ ret' = r
    /\ prev' = container
    /\ prevOp' = op

\* Constructors: the slot is rebuilt.
CallNew ==
    /\ container' = ContainerSpace_new
    /\ space' = Space_new
    /\ Called("new", None, Unit)

CallWithElement ==
    \E e \in Elements :
        /\ container' = ContainerSpace_with_element(e)
        /\ space' = Space_with_element(e)
        /\ Called("with_element", Some(e), Unit)

CallFrom ==
    \E v \in Options :
        /\ container' = ContainerSpace_from(v)
        /\ space' = Space_from(v)
        /\ Called("from", v, Unit)

\* Mutators (&mut self).
CallSetOptionalElement ==
    \E v \in Options :
        /\ container' = ContainerSpace_set_optional_element(container, v)
        /\ space' = Space_set_optional_element(space, v)
        /\ Called("set_optional_element", v, Unit)

CallSetElement ==
    \E e \in Elements :
        /\ container' = ContainerSpace_set_element(container, e)
        /\ space' = Space_set_element(space, e)
        /\ Called("set_element", Some(e), Unit)

CallClear ==
    /\ container' = ContainerSpace_clear(container)
    /\ space' = Space_clear(space)
    /\ Called("clear", None, Unit)

\* Readers (&self): the slot is borrowed immutably.
\* Mutant: the read takes the element out of the slot (Option::take).
CallElement_take ==
    /\ container' = [container EXCEPT !.element = None]
    /\ UNCHANGED space
    /\ Called("element", None, ContainerSpace_element(container))

CallElement ==
    /\ UNCHANGED <<container, space>>
    /\ Called("element", None, ContainerSpace_element(container))

CallAsOption ==
    /\ UNCHANGED <<container, space>>
    /\ Called("as_option", None, Value(ContainerSpace_as_option(container)))

CallIsEmpty ==
    /\ UNCHANGED <<container, space>>
    /\ Called("is_empty", None, Value(ContainerSpace_is_empty(container)))

CallHasElement ==
    /\ UNCHANGED <<container, space>>
    /\ Called("has_element", None, Value(ContainerSpace_has_element(container)))

CallToString ==
    /\ UNCHANGED <<container, space>>
    /\ Called("to_string", None, Value(ContainerSpace_fmt(container)))

\* EmptySpace::new().to_string(): the always-empty slot is built and rendered.
CallEmptyToString ==
    /\ UNCHANGED <<container, space>>
    /\ Called("empty_to_string", None, Value(EmptySpace_fmt(EmptySpace_new)))

Next ==
    \/ CallNew
    \/ CallWithElement
    \/ CallFrom
    \/ CallSetOptionalElement
    \/ CallSetElement
    \/ CallClear
    \/ CallElement
    \/ CallAsOption
    \/ CallIsEmpty
    \/ CallHasElement
    \/ CallToString
    \/ CallEmptyToString

Spec == Init /\ [][Next]_vars

----------------------------------------------------------------------------
\* Helpers of the properties.

ReadOps == {"element", "as_option", "is_empty", "has_element", "to_string"}

DigitChars == {Digits[i] : i \in 1..10}

DigitValue(c) == CHOOSE d \in 0..9 : Digits[d + 1] = c

RECURSIVE ParseDecimal(_)
ParseDecimal(t) ==
    IF Len(t) = 0 THEN 0
    ELSE 10 * ParseDecimal(SubSeq(t, 1, Len(t) - 1)) + DigitValue(t[Len(t)])

\* t is the canonical decimal text of x: digits only, no leading zero.
IsDecimalOf(t, x) ==
    /\ Len(t) >= 1
    /\ \A i \in 1..Len(t) : t[i] \in DigitChars
    /\ (Len(t) > 1 => t[1] # "0")
    /\ ParseDecimal(t) = x

\* t is '|' followed by the text of x followed by '|'.
IsOccupiedRendering(t, x) ==
    /\ Len(t) >= 3
    /\ t[1] = "|"
    /\ t[Len(t)] = "|"
    /\ IsDecimalOf(SubSeq(t, 2, Len(t) - 1), x)

EmptyRendering == <<"|", " ", "|">>

TypeOK ==
    /\ container \in [element : Options]
    /\ space \in [element : Options]
    /\ arg \in Options
    /\ ret.tag \in {"Ok", "Err", "Value", "Unit"}

----------------------------------------------------------------------------
\* C1: in every reachable state of the value slot, element() returns the
\* NoElement error if and only if is_empty() is true, and otherwise returns
\* Ok with the stored element; no other slot operation returns an error.
C1_ElementFailsIffEmpty ==
    /\ (ContainerSpace_element(container).tag = "Err")
           <=> ContainerSpace_is_empty(container)
    /\ ~ContainerSpace_is_empty(container) =>
           /\ ContainerSpace_element(container).tag = "Ok"
           /\ ContainerSpace_element(container).val = container.element[1]
    /\ op = "element" =>
           /\ (ret.tag = "Err") <=> ContainerSpace_is_empty(container)
           /\ ret.tag = "Err" => ret.val = NoElementError
           /\ ret.tag # "Err" =>
                  /\ ret.tag = "Ok"
                  /\ container.element = Some(ret.val)
    /\ op # "element" => ret.tag # "Err"

C1_Witness ==
    /\ op = "element"
    /\ prevOp = "clear"
    /\ ret.tag = "Err"
    /\ ret.val = NoElementError

\* C2: immediately after set_element(e) on any slot, has_element() is true,
\* element() succeeds with e, and the slot holds e instead of what it held.
C2_SetElementStores ==
    op = "set_element" =>
        /\ is_some(arg)
        /\ ContainerSpace_has_element(container)
        /\ ContainerSpace_element(container).tag = "Ok"
        /\ ContainerSpace_element(container).val = arg[1]
        /\ ContainerSpace_as_option(container) = arg

C2_Witness ==
    /\ op = "set_element"
    /\ is_some(prev.element)
    /\ prev.element # arg
    /\ container.element = arg

\* C3: immediately after clear() on any slot, occupied or already empty,
\* is_empty() is true and element() fails with the NoElement error.
C3_ClearEmpties ==
    op = "clear" =>
        /\ ContainerSpace_is_empty(container)
        /\ ContainerSpace_element(container).tag = "Err"
        /\ ContainerSpace_element(container).val = NoElementError

C3_Witness ==
    /\ op = "clear"
    /\ is_some(prev.element)
    /\ container.element = None

\* C4: the slot built by from(v) has as_option() equal to v: None gives an
\* empty slot and Some(x) a slot occupied with exactly x.
C4_FromRoundTrip ==
    op = "from" =>
        /\ ContainerSpace_as_option(container) = arg
        /\ arg = None => ContainerSpace_is_empty(container)
        /\ \A x \in Elements :
               arg = Some(x) => ContainerSpace_element(container) = Ok(x)

C4_Witness ==
    /\ op = "from"
    /\ arg = Some(5)
    /\ ContainerSpace_as_option(container) = Some(5)

\* C5: in every reachable state exactly one of is_empty() and has_element()
\* is true, and the slot holds no element or exactly one element.
C5_EmptyXorOccupied ==
    /\ ContainerSpace_is_empty(container) # ContainerSpace_has_element(container)
    /\ ContainerSpace_is_empty(container) => Len(container.element) = 0
    /\ ContainerSpace_has_element(container) => Len(container.element) = 1

C5_Witness ==
    /\ op = "has_element"
    /\ ret.val = TRUE
    /\ ~ContainerSpace_is_empty(container)

\* C6: the text of a slot is determined by its current state: an occupied
\* slot renders as '|', the decimal text of the element, '|' (5 gives "|5|"),
\* an empty slot as "| |", and the always-empty slot always as "| |".
C6_Rendering ==
    /\ op = "to_string" =>
           /\ is_none(container.element) => ret.val = EmptyRendering
           /\ is_some(container.element) =>
                  IsOccupiedRendering(ret.val, container.element[1])
           /\ container.element = Some(5) => ret.val = <<"|", "5", "|">>
    /\ op = "empty_to_string" => ret.val = EmptyRendering

C6_Witness ==
    /\ op = "to_string"
    /\ container.element = Some(5)
    /\ ret.val = <<"|", "5", "|">>

\* C8: set_element(e) leaves the slot in the state set_optional_element(Some(e))
\* leaves it in, clear() in the state set_optional_element(None) leaves it in,
\* and after set_optional_element(v) as_option() is v whatever the slot held.
C8_SolePrimitive ==
    /\ op = "set_element" =>
           /\ container = ContainerSpace_set_optional_element(prev, arg)
           /\ container = [element |-> arg]
    /\ op = "clear" =>
           /\ container = ContainerSpace_set_optional_element(prev, None)
           /\ container = [element |-> None]
    /\ op = "set_optional_element" => ContainerSpace_as_option(container) = arg

C8_Witness ==
    /\ op = "set_optional_element"
    /\ arg = None
    /\ is_some(prev.element)
    /\ ContainerSpace_as_option(container) = None

\* C9: a call of as_option(), is_empty(), has_element(), element() or the
\* text rendering leaves the stored optional element unchanged, and calling
\* the same one again returns the same result.
C9_ReadsDoNotMutate ==
    [][op' \in ReadOps =>
          /\ container' = container
          /\ space' = space
          /\ (op = op' => ret' = ret)]_vars

C9_Witness ==
    /\ op = "element"
    /\ prevOp = "element"
    /\ ret.tag = "Ok"
    /\ prev = container

\* C10: built by the same constructor and driven by the same mutator calls,
\* Space and ContainerSpace agree after every step: Space::element() equals
\* ContainerSpace::as_option(), is_empty() and has_element() agree, and the
\* text renderings are identical.
C10_SpaceEquivalence ==
    /\ Space_element(space) = ContainerSpace_as_option(container)
    /\ Space_is_empty(space) = ContainerSpace_is_empty(container)
    /\ Space_has_element(space) = ContainerSpace_has_element(container)
    /\ Space_fmt(space) = ContainerSpace_fmt(container)

C10_Witness ==
    /\ op = "set_optional_element"
    /\ prevOp = "with_element"
    /\ Space_fmt(space) = <<"|", "1", "0", "|">>
    /\ ContainerSpace_fmt(container) = <<"|", "1", "0", "|">>

====
